---- MODULE Spec2Model ----
(***************************************************************************)
(* A model of the cluster connection object ApiClient (remote/apiclient):  *)
(* its reader ProcessMessage, its write queue (SendMessage and             *)
(* SendMessageSync), its teardown (Disconnect and DisconnectSync) and the  *)
(* two API functions registered beside it, log::SetLogPosition and         *)
(* pki::RequestCertificate.                                                *)
(*                                                                         *)
(* A Dictionary is a function whose domain is the set of keys it holds, so *)
(* Contains(k) is k \in DOMAIN d.  Text built by concatenation is the      *)
(* tuple of its fragments.  PBKDF2_SHA1 is an ideal hash: the term of its  *)
(* arguments.                                                              *)
(***************************************************************************)
EXTENDS Integers, Sequences, FiniteSets, TLC

(* ------------------------------ bounds ------------------------------- *)

\* Timestamps ('ts', 'log_position') range over 0..MaxTs.
MaxTs == 2
\* Calls of ProcessMessage in one behaviour.
MaxInbound == 2
\* Calls of SendMessage in one behaviour.
MaxSends == 5
\* Transport events (peer close, shutdown, reset) in one behaviour.
MaxFaults == 1
\* Utility::GetTime() ranges over 0..MaxNow.
MaxNow == 1
\* The high-water mark of SendMessage: 20000 in the source, scaled down so
\* that a queue longer than the mark is reached.
HighWater == 2
\* Names handed to one call of FeatureEnableCommand::Run.
MaxArgs == 2
\* Calls of FeatureEnableCommand::Run in one behaviour.
MaxRuns == 2
\* Messages one reader thread handles in one behaviour of the threads.
MaxReads == 1
\* Calls of SendMessage by one sender thread in one behaviour of the threads.
MaxRounds == 3

(* ---------------------------- the world ------------------------------ *)

\* PBKDF2 iteration count of RequestCertificateHandler.
Iterations == 50000

Endpoints == {"e1"}
NoEndpoint == "<null>"

\* c1: an authenticated connection of Endpoint e1; c2: an anonymous one;
\* c3: an authenticated connection whose identity names no Endpoint;
\* c4: a second authenticated connection of Endpoint e1.
Clients == {"c1", "c2", "c3", "c4"}
m_Identity == [c \in Clients |->
    CASE c \in {"c1", "c4"} -> "e1" [] c = "c2" -> "new" [] OTHER -> "ghost"]
m_Authenticated == [c \in Clients |-> c \in {"c1", "c3", "c4"}]
\* Alone, c4 behaves as c1 does: the connections explored one at a time.
Alone == Clients \ {"c4"}

\* The TLS peer certificate of each connection's stream.
PeerCertificate == [c \in Clients |->
    [pubkey |-> <<"key", c>>, subject |-> <<"CN", m_Identity[c]>>]]

Salts == {"", "s1"}

(* ---------------------------- dictionaries --------------------------- *)

EmptyDict == [k \in {} |-> 0]
\* Empty, the Value a handler returns for "nothing".
Empty == [empty |-> TRUE]
\* A null Dictionary::Ptr.
Null == [null |-> TRUE]

Contains(d, k) == k \in DOMAIN d
\* d->Get(k) converted to double: Empty converts to 0.
GetDouble(d, k) == IF k \in DOMAIN d THEN d[k] ELSE 0
\* d->Get(k) converted to a ticket string: Empty converts to "".
NoTicket == <<>>
GetTicket(d, k) == IF k \in DOMAIN d THEN d[k] ELSE NoTicket
\* d->Get(k) converted to String: Empty converts to "".
GetString(d, k) == IF k \in DOMAIN d THEN d[k] ELSE ""
\* message->Get("params") converted to Dictionary::Ptr.
GetParams(message) == IF "params" \in DOMAIN message THEN message["params"] ELSE Null

Max(a, b) == IF a > b THEN a ELSE b

(* ------------------------------ inputs ------------------------------- *)

PBKDF2_SHA1(password, salt, iterations) == <<"pbkdf2", password, salt, iterations>>

Tickets ==
    {PBKDF2_SHA1(i, s, Iterations) : i \in {"e1", "new"}, s \in Salts \ {""}}
    \cup {PBKDF2_SHA1("new", "s1", 1), PBKDF2_SHA1("new", "", Iterations)}

Methods == {"log::SetLogPosition", "pki::RequestCertificate", "event::Other", "no::Such"}

ParamsOf(method) ==
    CASE method = "log::SetLogPosition" ->
            {EmptyDict} \cup {[log_position |-> p] : p \in 1..MaxTs}
      [] method = "pki::RequestCertificate" ->
            {EmptyDict} \cup {[ticket |-> t] : t \in Tickets}
            \cup {[ticket |-> PBKDF2_SHA1("new", "s1", Iterations),
                   pubkey |-> <<"key", "evil">>, subject |-> <<"CN", "evil">>]}
      [] OTHER -> {}

WithParams(m) == {m} \cup {m @@ ("params" :> p) : p \in ParamsOf(m["method"])}
WithTs(m) == {m} \cup {m @@ ("ts" :> t) : t \in 0..MaxTs}
WithId(m) == {m} \cup {m @@ ("id" :> i) : i \in {7}}

\* The messages a peer may send (workload "dispatch").
InMessages == UNION {UNION {WithId(m2) : m2 \in WithTs(m1)} :
                        m1 \in UNION {WithParams([method |-> m]) : m \in Methods}}

\* The messages a peer sends in workload "queue".
FewInMessages == WithId([method |-> "event::Other"])

\* The zones configured, and what a message may name as its 'originZone'.
Zones == {"master", "satellite"}
OriginZones == Zones \cup {"nowhere"}
WithOriginZone(m) == {m} \cup {m @@ ("originZone" :> z) : z \in OriginZones}

\* The messages a peer sends in workload "origin".
OriginMessages ==
    UNION {UNION {WithId(m2) : m2 \in WithTs(m1)} :
              m1 \in WithOriginZone([method |-> "event::Other"])}

\* The workloads explored: "dispatch" is MaxInbound calls of ProcessMessage with
\* every inbound message and no outbound message, "queue" is one call of
\* ProcessMessage with few inbound messages and MaxSends outbound messages.
Workloads == {"dispatch", "queue"}
InMessagesOf(w) ==
    CASE w = "dispatch" -> InMessages
      [] w = "origin" -> OriginMessages
      [] OTHER -> FewInMessages
\* The local zone is "master" but in workload "origin", where it is any zone.
LocalZonesOf(w) == IF w = "origin" THEN Zones ELSE {"master"}
InboundOf(w) == IF w \in {"dispatch", "connect"} THEN MaxInbound ELSE 1
SendsOf(w) ==
    CASE w = "dispatch" -> 0
      [] w = "teardown" -> HighWater + 2
      [] OTHER -> MaxSends

\* The messages the process sends to a peer.
OutMessages == {[method |-> "event::Heartbeat"], [method |-> "log::SetLogPosition"]}

(* ------------------------------ state -------------------------------- *)

VARIABLES
    remoteLogPosition,  \* Endpoint -> its remote log position
    localLogPosition,   \* Endpoint -> its local log position
    endpointClients,    \* Endpoint -> the connections registered with it
    anonymousClients,   \* the listener's anonymous connections
    ticketSalt,         \* the listener's ticket salt
    signedCerts,        \* what CreateCertIcingaCA has signed
    m_WriteQueue,       \* connection -> its pending SendMessageSync tasks
    m_Seen,             \* connection -> m_Seen
    stream,             \* connection -> the state of its TlsStream
    wire,               \* connection -> the messages written to its stream
    asyncCallbacks,     \* connection -> queued DisconnectSync callbacks
    teardowns,          \* connection -> how often DisconnectSync has run
    now,                \* Utility::GetTime()
    last,               \* what the latest ProcessMessage call did
    seenTs,             \* Endpoint -> the largest 'ts' received for it
    seenLogPos,         \* Endpoint -> the largest 'log_position' handled for it
    overflowed,         \* the connections whose SendMessage met a full queue
    clients,            \* the connections constructed
    workload,           \* the workload of this behaviour
    nProc, nSend, nFault

\* The command line tool "feature enable" and its two directories.
VARIABLES
    dirs,               \* which of features-available and features-enabled exist
    available,          \* the features with a file in features-available
    enabled,            \* the features with a path in features-enabled
    run,                \* what the latest FeatureEnableCommand::Run did
    prevRun,            \* the arguments and exit status of the Run before it
    links               \* feature -> the links created for it

\* Configuration.
VARIABLES
    localZone           \* Zone::GetLocalZone()

\* The threads that run the operations of ApiClient side by side.
VARIABLES
    threads,            \* the threads that run
    pc,                 \* thread -> where it is
    reg,                \* thread -> its local variables
    olock,              \* the holder of ObjectLock(m_Stream) of c1, or "none"
    rounds              \* thread -> the calls it has completed

apiVars == <<remoteLogPosition, localLogPosition, endpointClients, anonymousClients,
             ticketSalt, signedCerts, m_WriteQueue, m_Seen, stream, wire,
             asyncCallbacks, teardowns, now, last, seenTs, seenLogPos,
             overflowed, clients, workload, nProc, nSend, nFault>>

cliVars == <<dirs, available, enabled, run, prevRun, links>>

config == <<localZone>>

\* What no operation of ApiClient touches.
threadVars == <<threads, pc, reg, olock, rounds>>

\* What no operation of ApiClient touches.
elsewhere == <<cliVars, config, threadVars>>

vars == <<apiVars, elsewhere>>

(* -------------------------- the constructor -------------------------- *)

\* Endpoint::GetByName.
EndpointGetByName(name) == IF name \in Endpoints THEN name ELSE NoEndpoint

\* m_Endpoint of a constructor that never resolves the identity.
m_EndpointUnresolved == [c \in Clients |-> NoEndpoint]

\* m_Endpoint as the constructor sets it.
m_Endpoint == [c \in Clients |->
    IF m_Authenticated[c] THEN EndpointGetByName(m_Identity[c]) ELSE NoEndpoint]

(* ---------------------------- the stream ----------------------------- *)

\* "open":     both directions work
\* "eof":      the peer closed, IsEof() is true
\* "shutdown": the peer closed cleanly and the stream has not seen it yet:
\*             a read raises openssl_error with error code 0
\* "broken":   a read raises openssl_error, a write raises
\* "wbroken":  the peer is gone but left data to read: a write raises
\* "closed":   Close() was called
StreamStates == {"open", "eof", "shutdown", "broken", "wbroken", "closed"}

\* What m_Stream->IsEof() may answer; the answer of a closed stream is not fixed.
IsEofAnswers(s) == IF s = "closed" THEN BOOLEAN ELSE {s = "eof"}

\* JsonRpc::SendMessage(m_Stream, message): TRUE when it returns, FALSE when it raises.
WriteSucceeds(s) == s = "open"

\* What JsonRpc::ReadMessage(m_Stream, m_NSContext) yields.
\* raises: whether the function the message names raises (event::Other may).
ReadResults(s, w) ==
    CASE s \in {"open", "wbroken"} ->
            {[kind |-> "message", message |-> m, raises |-> FALSE] : m \in InMessagesOf(w)}
            \cup {[kind |-> "message", message |-> m, raises |-> TRUE] :
                      m \in {x \in InMessagesOf(w) : x["method"] = "event::Other"}}
            \cup {[kind |-> "none", message |-> EmptyDict, raises |-> FALSE],
                  [kind |-> "decode_error", message |-> EmptyDict, raises |-> FALSE]}
      [] s = "shutdown" -> {[kind |-> "ssl_clean", message |-> EmptyDict, raises |-> FALSE]}
      [] OTHER -> {[kind |-> "ssl_error", message |-> EmptyDict, raises |-> FALSE]}

(* --------------------------- API functions --------------------------- *)

\* NewLocalLogPosition without its comparison.
NewLocalLogPositionUnchecked(log_position, current) == log_position

\* The comparison of SetLogPositionHandler.
NewLocalLogPosition(log_position, current) ==
    IF log_position > current THEN log_position ELSE current

\* SetLogPositionHandler without the test of the Endpoint: it raises when the
\* connection has none.
SetLogPositionHandlerUnchecked(c, params, hs) ==
    IF params = Null
    THEN [threw |-> FALSE, value |-> Empty, hs |-> hs]
    ELSE IF m_Endpoint[c] = NoEndpoint
         THEN [threw |-> TRUE, value |-> Empty, hs |-> hs]
         ELSE [threw |-> FALSE, value |-> Empty,
               hs |-> [hs EXCEPT !.local[m_Endpoint[c]] =
                          NewLocalLogPosition(GetDouble(params, "log_position"), @)]]

\* A handler works on hs = [local |-> localLogPosition, signed |-> signedCerts]
\* and yields [threw, value, hs].
SetLogPositionHandler(c, params, hs) ==
    IF params = Null
    THEN [threw |-> FALSE, value |-> Empty, hs |-> hs]
    ELSE LET log_position == GetDouble(params, "log_position")
             endpoint == m_Endpoint[c]
         IN IF endpoint = NoEndpoint
            THEN [threw |-> FALSE, value |-> Empty, hs |-> hs]
            ELSE [threw |-> FALSE, value |-> Empty,
                  hs |-> [hs EXCEPT !.local[endpoint] =
                                        NewLocalLogPosition(log_position, @)]]

\* ticket != realTicket
TicketMismatch(ticket, realTicket) == ticket # realTicket

\* The identity whose ticket is recomputed: the connection's.
TicketIdentity(c, params) == m_Identity[c]

\* CertToSign that takes the key and the subject from params when it holds them.
CertToSignFromParams(c, params) ==
    IF "pubkey" \in DOMAIN params
    THEN [pubkey |-> params["pubkey"], subject |-> params["subject"]]
    ELSE PeerCertificate[c]

\* The certificate whose key and subject are signed: the stream's peer certificate.
CertToSign(c, params) == PeerCertificate[c]

\* CreateCertIcingaCA(pubkey, subject), as text.
CreateCertIcingaCA(pubkey, subject) == <<"cert", pubkey, subject>>
CaCert == <<"cert", <<"key", "ca">>, <<"CN", "Icinga CA">>>>

SaltMissingText == <<"Ticket salt is not configured.">>
InvalidTicketText == <<"Invalid ticket.">>

\* SaltIsEmpty that never finds the salt empty.
SaltIsEmptyNever(salt) == FALSE

\* salt.IsEmpty()
SaltIsEmpty(salt) == salt = ""

RequestCertificateHandler(c, params, hs, salt) ==
    IF params = Null
    THEN [threw |-> FALSE, value |-> Empty, hs |-> hs]
    ELSE IF SaltIsEmpty(salt)
    THEN [threw |-> FALSE, value |-> [error |-> SaltMissingText], hs |-> hs]
    ELSE LET ticket == GetTicket(params, "ticket")
             realTicket == PBKDF2_SHA1(TicketIdentity(c, params), salt, Iterations)
         IN IF TicketMismatch(ticket, realTicket)
            THEN [threw |-> FALSE, value |-> [error |-> InvalidTicketText], hs |-> hs]
            ELSE LET cert == CertToSign(c, params)
                 IN [threw |-> FALSE,
                     value |-> [cert |-> CreateCertIcingaCA(cert.pubkey, cert.subject),
                                ca |-> CaCert],
                     hs |-> [hs EXCEPT !.signed = @ \cup {cert}]]

\* A function registered elsewhere: it returns or raises (raises).
OtherHandler(c, params, hs, raises) ==
    [threw |-> raises, value |-> Empty, hs |-> hs]

\* ApiFunction::GetByName: the registry.
Registered == {"log::SetLogPosition", "pki::RequestCertificate", "event::Other"}

\* afunc->Invoke(origin, params)
Invoke(method, c, params, hs, salt, raises) ==
    CASE method = "log::SetLogPosition" -> SetLogPositionHandler(c, params, hs)
      [] method = "pki::RequestCertificate" -> RequestCertificateHandler(c, params, hs, salt)
      [] OTHER -> OtherHandler(c, params, hs, raises)

\* DiagnosticInformation(std::invalid_argument("Function '" + method + "' does not exist."))
NoSuchFunctionText(method) == <<"Function '", method, "' does not exist.">>
HandlerErrorText == <<"handler error">>

(* ----------------------------- Disconnect ---------------------------- *)

\* Disconnect queues one DisconnectSync callback: asyncCallbacks afterwards.
Disconnect(c) == [asyncCallbacks EXCEPT ![c] = @ + 1]

(* -------------------------- ProcessMessage --------------------------- *)

\* IsStale with ties dropped too.
IsStaleOrTie(ts, position) == ts <= position

\* "ignore old messages": the comparison of the freshness check.
IsStale(ts, position) == ts < position

\* m_Seen after the reader or the writer handled a message of this method.
SeenAfter(c, method) ==
    IF method # "log::SetLogPosition" THEN now ELSE m_Seen[c]

\* ErrorResult that sets a result beside the error.
ErrorResultAndResult(text) == ("error" :> text) @@ ("result" :> Empty)

\* resultMessage->Set("error", text) on the fresh resultMessage
ErrorResult(text) == "error" :> text
\* resultMessage->Set("result", value) on the fresh resultMessage
ValueResult(value) == "result" :> value

\* A null Zone::Ptr.
NoZone == "<no zone>"
\* Endpoint::GetZone
EndpointZone == [e \in Endpoints |-> "master"]
\* Zone::GetByName
ZoneGetByName(name) == IF name \in Zones THEN name ELSE NoZone

\* FromZone taken from the message whatever the Endpoint's zone.
FromZoneOfMessage(c, message, local) ==
    IF m_Endpoint[c] = NoEndpoint
    THEN NoZone
    ELSE ZoneGetByName(GetString(message, "originZone"))

\* origin.FromZone; local is Zone::GetLocalZone().
FromZone(c, message, local) ==
    IF m_Endpoint[c] = NoEndpoint
    THEN NoZone
    ELSE IF EndpointZone[m_Endpoint[c]] # local
         THEN EndpointZone[m_Endpoint[c]]
         ELSE ZoneGetByName(GetString(message, "originZone"))

\* The MessageOrigin ProcessMessage builds.
NoOrigin == [FromClient |-> "none", FromZone |-> NoZone]
Origin(c, message) ==
    [FromClient |-> c, FromZone |-> FromZone(c, message, localZone)]

\* The try block of ProcessMessage: look the function up, invoke it, and turn
\* what it returns or raises into resultMessage; the function is handed origin.
\* Yields [invoked, threw, resultMessage, hs, origin].
Dispatch(c, message, raises) ==
    LET method == GetString(message, "method")
        hs0 == [local |-> localLogPosition, signed |-> signedCerts]
        origin == Origin(c, message)
    IN IF method \notin Registered
       THEN [invoked |-> "none", threw |-> FALSE, origin |-> origin,
             resultMessage |-> ErrorResult(NoSuchFunctionText(method)), hs |-> hs0]
       ELSE LET r == Invoke(method, origin.FromClient, GetParams(message), hs0,
                            ticketSalt, raises)
            IN [invoked |-> method, threw |-> r.threw, origin |-> origin,
                resultMessage |-> IF r.threw THEN ErrorResult(HandlerErrorText)
                                             ELSE ValueResult(r.value),
                hs |-> r.hs]

\* The response: resultMessage with the version marker and the request's id.
Response(resultMessage, message) ==
    resultMessage @@ ("jsonrpc" :> "2.0") @@ ("id" :> message["id"])

\* A ProcessMessage call that touches nothing.
Quiet(c) ==
    [outcome |-> "none", ret |-> "false", disconnect |-> FALSE,
     message |-> EmptyDict, seen |-> m_Seen[c], remote |-> remoteLogPosition,
     hs |-> [local |-> localLogPosition, signed |-> signedCerts],
     invoked |-> "none", threw |-> FALSE, resultMessage |-> EmptyDict,
     responded |-> FALSE, written |-> FALSE, origin |-> NoOrigin]

\* A decoded message: the freshness check, the dispatch, the response.
HandleMessage(c, message, raises) ==
    LET endpoint == m_Endpoint[c]
        checked == endpoint # NoEndpoint /\ Contains(message, "ts")
        ts == GetDouble(message, "ts")
        seen == SeenAfter(c, GetString(message, "method"))
    IN IF checked /\ IsStale(ts, remoteLogPosition[endpoint])
       THEN [Quiet(c) EXCEPT !.outcome = "stale", !.ret = "true",
                             !.message = message, !.seen = seen]
       ELSE LET d == Dispatch(c, message, raises)
                responded == Contains(message, "id")
                written == responded /\ WriteSucceeds(stream[c])
            IN [outcome |-> "dispatched",
                ret |-> IF responded /\ ~written THEN "throw" ELSE "true",
                disconnect |-> FALSE,
                message |-> message,
                seen |-> seen,
                remote |-> IF checked
                           THEN [remoteLogPosition EXCEPT ![endpoint] = ts]
                           ELSE remoteLogPosition,
                hs |-> d.hs,
                invoked |-> d.invoked,
                threw |-> d.threw,
                resultMessage |-> IF responded THEN Response(d.resultMessage, message)
                                               ELSE d.resultMessage,
                responded |-> responded,
                written |-> written,
                origin |-> d.origin]

\* What one call of ProcessMessage does, given what the stream yields.
ProcessOutcome(c, input, eof) ==
    IF eof
    THEN [Quiet(c) EXCEPT !.outcome = "eof", !.ret = "false", !.disconnect = TRUE]
    ELSE CASE input.kind = "ssl_clean" ->
                [Quiet(c) EXCEPT !.outcome = "ssl_clean", !.ret = "false"]
           [] input.kind \in {"ssl_error", "decode_error"} ->
                [Quiet(c) EXCEPT !.outcome = input.kind, !.ret = "throw"]
           [] input.kind = "none" -> Quiet(c)
           [] OTHER -> HandleMessage(c, input.message, input.raises)

\* The largest timestamp the Endpoint of c has been sent, after this message.
SeenTsAfter(c, o) ==
    IF o.outcome \in {"stale", "dispatched"} /\ m_Endpoint[c] # NoEndpoint
       /\ Contains(o.message, "ts")
    THEN [seenTs EXCEPT ![m_Endpoint[c]] = Max(@, o.message["ts"])]
    ELSE seenTs

\* The largest log_position SetLogPositionHandler has been handed for the
\* Endpoint of c, after this message.
SeenLogPosAfter(c, o) ==
    IF o.invoked = "log::SetLogPosition" /\ m_Endpoint[c] # NoEndpoint
       /\ GetParams(o.message) # Null
    THEN [seenLogPos EXCEPT ![m_Endpoint[c]] =
              Max(@, GetDouble(GetParams(o.message), "log_position"))]
    ELSE seenLogPos

\* One call of ProcessMessage on connection c, the set of constructed
\* connections apart.
ProcessMessageCall(c) ==
    /\ nProc < InboundOf(workload)
    /\ \E eof \in IsEofAnswers(stream[c]) :
       \E input \in IF eof THEN {[kind |-> "none", message |-> EmptyDict, raises |-> FALSE]}
                           ELSE ReadResults(stream[c], workload) :
          LET o == ProcessOutcome(c, input, eof)
          IN /\ last' = [client |-> c, outcome |-> o.outcome, ret |-> o.ret,
                         message |-> o.message, invoked |-> o.invoked,
                         threw |-> o.threw,
                         resultMessage |-> o.resultMessage,
                         responded |-> o.responded, written |-> o.written,
                         disconnect |-> o.disconnect, origin |-> o.origin]
             /\ m_Seen' = [m_Seen EXCEPT ![c] = o.seen]
             /\ remoteLogPosition' = o.remote
             /\ localLogPosition' = o.hs.local
             /\ signedCerts' = o.hs.signed
             /\ wire' = IF o.written
                        THEN [wire EXCEPT ![c] = Append(@, o.resultMessage)]
                        ELSE wire
             /\ asyncCallbacks' = IF o.disconnect THEN Disconnect(c)
                                                  ELSE asyncCallbacks
             /\ seenTs' = SeenTsAfter(c, o)
             /\ seenLogPos' = SeenLogPosAfter(c, o)
    /\ nProc' = nProc + 1
    /\ UNCHANGED <<ticketSalt, m_WriteQueue,
                   stream, teardowns, now, overflowed, workload, nSend, nFault>>
    /\ UNCHANGED elsewhere

\* The stream signals data (OnDataAvailable): ProcessMessage runs.
ProcessMessage(c) ==
    /\ ProcessMessageCall(c)
    /\ UNCHANGED <<clients, endpointClients, anonymousClients>>

(* --------------------------- the write queue ------------------------- *)

\* TooManyQueued with the mark one too high.
TooManyQueuedOffByOne(length) == length > HighWater + 1

\* m_WriteQueue.GetLength() > 20000
TooManyQueued(length) == length > HighWater

SendMessage(c) ==
    /\ nSend < SendsOf(workload)
    /\ nSend' = nSend + 1
    /\ \E message \in OutMessages :
          IF TooManyQueued(Len(m_WriteQueue[c]))
          THEN /\ asyncCallbacks' = Disconnect(c)
               /\ overflowed' = overflowed \cup {c}
               /\ UNCHANGED m_WriteQueue
          ELSE /\ m_WriteQueue' = [m_WriteQueue EXCEPT ![c] = Append(@, message)]
               /\ UNCHANGED <<asyncCallbacks, overflowed>>
    /\ UNCHANGED <<remoteLogPosition, localLogPosition, endpointClients,
                   anonymousClients, ticketSalt, signedCerts, m_Seen, stream, wire,
                   teardowns, now, last, seenTs, seenLogPos, clients, workload,
                   nProc, nFault>>
    /\ UNCHANGED elsewhere

\* The queue's worker runs the oldest task.
SendMessageSync(c) ==
    /\ m_WriteQueue[c] # <<>>
    /\ m_WriteQueue' = [m_WriteQueue EXCEPT ![c] = Tail(@)]
    /\ \E eof \in IsEofAnswers(stream[c]) :
       LET message == Head(m_WriteQueue[c])
       IN IF eof
          THEN UNCHANGED <<wire, m_Seen, asyncCallbacks>>
          ELSE IF WriteSucceeds(stream[c])
          THEN /\ wire' = [wire EXCEPT ![c] = Append(@, message)]
               /\ m_Seen' = [m_Seen EXCEPT ![c] = SeenAfter(c, message["method"])]
               /\ UNCHANGED asyncCallbacks
          ELSE /\ asyncCallbacks' = Disconnect(c)
               /\ UNCHANGED <<wire, m_Seen>>
    /\ UNCHANGED <<remoteLogPosition, localLogPosition, endpointClients,
                   anonymousClients, ticketSalt, signedCerts, stream, teardowns,
                   now, last, seenTs, seenLogPos, overflowed, clients, workload,
                   nProc, nSend, nFault>>
    /\ UNCHANGED elsewhere

(* ------------------------------ teardown ----------------------------- *)

\* A queued DisconnectSync callback runs.
DisconnectSync(c) ==
    /\ asyncCallbacks[c] > 0
    /\ asyncCallbacks' = [asyncCallbacks EXCEPT ![c] = @ - 1]
    /\ teardowns' = [teardowns EXCEPT ![c] = @ + 1]
    /\ IF m_Endpoint[c] # NoEndpoint
       THEN /\ endpointClients' = [endpointClients EXCEPT ![m_Endpoint[c]] = @ \ {c}]
            /\ UNCHANGED anonymousClients
       ELSE /\ anonymousClients' = anonymousClients \ {c}
            /\ UNCHANGED endpointClients
    /\ stream' = [stream EXCEPT ![c] = "closed"]
    /\ UNCHANGED <<remoteLogPosition, localLogPosition, ticketSalt, signedCerts,
                   m_WriteQueue, m_Seen, wire, now, last, seenTs, seenLogPos,
                   overflowed, clients, workload, nProc, nSend, nFault>>
    /\ UNCHANGED elsewhere

(* --------------------------- the environment ------------------------- *)

\* The peer closes, shuts down or resets an open connection.
StreamFault(c) ==
    /\ nFault < MaxFaults
    /\ nFault' = nFault + 1
    /\ stream[c] = "open"
    /\ \E s \in {"eof", "shutdown", "broken", "wbroken"} :
          stream' = [stream EXCEPT ![c] = s]
    /\ UNCHANGED <<remoteLogPosition, localLogPosition, endpointClients,
                   anonymousClients, ticketSalt, signedCerts, m_WriteQueue, m_Seen,
                   wire, asyncCallbacks, teardowns, now, last, seenTs, seenLogPos,
                   overflowed, clients, workload, nProc, nSend>>
    /\ UNCHANGED elsewhere

\* Time passes.
Tick ==
    /\ now < MaxNow
    /\ now' = now + 1
    /\ UNCHANGED <<remoteLogPosition, localLogPosition, endpointClients,
                   anonymousClients, ticketSalt, signedCerts, m_WriteQueue, m_Seen,
                   stream, wire, asyncCallbacks, teardowns, last, seenTs,
                   seenLogPos, overflowed, clients, workload, nProc, nSend, nFault>>
    /\ UNCHANGED elsewhere

(* ---------------------------- construction --------------------------- *)

\* Disconnect has been called on the connection.
Closing(c) == asyncCallbacks[c] + teardowns[c] > 0
\* DisconnectSync has run on the connection.
Closed(c) == teardowns[c] > 0

\* ApiClient::ApiClient(identity, authenticated, stream, role): m_Endpoint is
\* resolved (m_Endpoint above), ProcessMessage is connected to the stream's
\* signal and called once.  The constructor registers the connection nowhere.
Construct(c) ==
    /\ c \notin clients
    /\ clients' = clients \cup {c}
    /\ ProcessMessageCall(c)
    /\ UNCHANGED <<endpointClients, anonymousClients>>

\* The listener registers a constructed connection: with its Endpoint, where the
\* most recent connection wins, or with the anonymous connections.
AddClient(c) ==
    /\ c \in clients
    /\ ~Closing(c)
    /\ c \notin anonymousClients
    /\ \A e \in Endpoints : c \notin endpointClients[e]
    /\ IF m_Endpoint[c] # NoEndpoint
       THEN /\ endpointClients' = [endpointClients EXCEPT ![m_Endpoint[c]] = {c}]
            /\ UNCHANGED anonymousClients
       ELSE /\ anonymousClients' = anonymousClients \cup {c}
            /\ UNCHANGED endpointClients
    /\ UNCHANGED <<remoteLogPosition, localLogPosition, ticketSalt, signedCerts,
                   m_WriteQueue, m_Seen, stream, wire, asyncCallbacks, teardowns,
                   now, last, seenTs, seenLogPos, overflowed, clients, workload,
                   nProc, nSend, nFault>>
    /\ UNCHANGED elsewhere

(* ------------------------------ threads ------------------------------ *)

\* reader1 runs ProcessMessage on c1 and reader2 on c4, both connections of
\* Endpoint e1; sender1 and sender2 call SendMessage on c1; writer is the worker
\* of c1's m_WriteQueue and runs SendMessageSync.
Readers == {"reader1", "reader2"}
Senders == {"sender1", "sender2"}
Threads == Readers \cup Senders \cup {"writer"}
ConnOf(t) == IF t = "reader2" THEN "c4" ELSE "c1"

\* The thread sets explored.
Scenarios == {Readers, {"reader1", "sender1", "writer"}, Senders \cup {"writer"}}

\* The messages the readers are sent.
ThreadMessages ==
    UNION {WithId(m) :
              m \in {[method |-> "event::Other"]}
                    \cup {[method |-> "log::SetLogPosition", ts |-> t,
                           params |-> [log_position |-> p]] :
                              t \in 1..MaxTs, p \in 1..MaxTs}}

NoReg == [message |-> EmptyDict]

\* What no step of a thread touches.
threadFrame == <<endpointClients, anonymousClients, ticketSalt, signedCerts, stream,
                 teardowns, now, last, seenTs, seenLogPos, overflowed, clients,
                 workload, nProc, nSend, nFault, cliVars, config, threads>>

\* The thread moves to location l.
Goto(t, l) == pc' = [pc EXCEPT ![t] = l]
\* The thread finishes its call.
Return(t) ==
    /\ pc' = [pc EXCEPT ![t] = "idle"]
    /\ rounds' = [rounds EXCEPT ![t] = @ + 1]

\* ProcessMessage enters JsonRpc::ReadMessage(m_Stream, m_NSContext).
ReadBegin(t) ==
    /\ t \in threads \cap Readers
    /\ pc[t] = "idle"
    /\ rounds[t] < MaxReads
    /\ Goto(t, "reading")
    /\ UNCHANGED <<remoteLogPosition, localLogPosition, m_WriteQueue, m_Seen, wire,
                   asyncCallbacks, reg, olock, rounds, threadFrame>>

\* JsonRpc::ReadMessage returns a message; m_Seen is set.
ReadEnd(t) ==
    /\ pc[t] = "reading"
    /\ \E message \in ThreadMessages :
          /\ reg' = [reg EXCEPT ![t] = [message |-> message]]
          /\ m_Seen' = [m_Seen EXCEPT ![ConnOf(t)] =
                            SeenAfter(ConnOf(t), message["method"])]
          /\ Goto(t, IF m_Endpoint[ConnOf(t)] # NoEndpoint /\ Contains(message, "ts")
                     THEN "freshness" ELSE "dispatch")
    /\ UNCHANGED <<remoteLogPosition, localLogPosition, m_WriteQueue, wire,
                   asyncCallbacks, olock, rounds, threadFrame>>

\* if (ts < m_Endpoint->GetRemoteLogPosition()) return true;
FreshnessCheck(t) ==
    /\ pc[t] = "freshness"
    /\ IF IsStale(reg[t].message["ts"], remoteLogPosition[m_Endpoint[ConnOf(t)]])
       THEN Return(t)
       ELSE Goto(t, "setRemote") /\ UNCHANGED rounds
    /\ UNCHANGED <<remoteLogPosition, localLogPosition, m_WriteQueue, m_Seen, wire,
                   asyncCallbacks, reg, olock, threadFrame>>

\* m_Endpoint->SetRemoteLogPosition(ts);
SetRemoteLogPosition(t) ==
    /\ pc[t] = "setRemote"
    /\ remoteLogPosition' = [remoteLogPosition EXCEPT ![m_Endpoint[ConnOf(t)]] =
                                 reg[t].message["ts"]]
    /\ Goto(t, "dispatch")
    /\ UNCHANGED <<localLogPosition, m_WriteQueue, m_Seen, wire, asyncCallbacks,
                   reg, olock, rounds, threadFrame>>

\* The function is invoked.  SetLogPositionHandler:
\* if (log_position > endpoint->GetLocalLogPosition())
InvokeHandler(t) ==
    /\ pc[t] = "dispatch"
    /\ LET message == reg[t].message
           params == GetParams(message)
           endpoint == m_Endpoint[ConnOf(t)]
       IN IF /\ message["method"] = "log::SetLogPosition"
             /\ params # Null
             /\ endpoint # NoEndpoint
             /\ NewLocalLogPosition(GetDouble(params, "log_position"),
                                    localLogPosition[endpoint])
                    # localLogPosition[endpoint]
          THEN Goto(t, "setLocal")
          ELSE Goto(t, "respond")
    /\ UNCHANGED <<remoteLogPosition, localLogPosition, m_WriteQueue, m_Seen, wire,
                   asyncCallbacks, reg, olock, rounds, threadFrame>>

\* endpoint->SetLocalLogPosition(log_position);
SetLocalLogPosition(t) ==
    /\ pc[t] = "setLocal"
    /\ localLogPosition' = [localLogPosition EXCEPT ![m_Endpoint[ConnOf(t)]] =
                                GetDouble(GetParams(reg[t].message), "log_position")]
    /\ Goto(t, "respond")
    /\ UNCHANGED <<remoteLogPosition, m_WriteQueue, m_Seen, wire, asyncCallbacks,
                   reg, olock, rounds, threadFrame>>

\* if (message->Contains("id")): ProcessMessage enters
\* JsonRpc::SendMessage(m_Stream, resultMessage); it takes no lock.
RespondBegin(t) ==
    /\ pc[t] = "respond"
    /\ IF Contains(reg[t].message, "id")
       THEN Goto(t, "responding") /\ UNCHANGED rounds
       ELSE Return(t)
    /\ UNCHANGED <<remoteLogPosition, localLogPosition, m_WriteQueue, m_Seen, wire,
                   asyncCallbacks, reg, olock, threadFrame>>

\* JsonRpc::SendMessage returns: the response is on the transport.
RespondEnd(t) ==
    /\ pc[t] = "responding"
    /\ wire' = [wire EXCEPT ![ConnOf(t)] =
                    Append(@, Response(ValueResult(Empty), reg[t].message))]
    /\ Return(t)
    /\ UNCHANGED <<remoteLogPosition, localLogPosition, m_WriteQueue, m_Seen,
                   asyncCallbacks, reg, olock, threadFrame>>

\* SendMessage: if (m_WriteQueue.GetLength() > 20000) { Disconnect(); return; }
GetLength(t) ==
    /\ t \in threads \cap Senders
    /\ pc[t] = "idle"
    /\ rounds[t] < MaxRounds
    /\ IF TooManyQueued(Len(m_WriteQueue[ConnOf(t)]))
       THEN /\ asyncCallbacks' = Disconnect(ConnOf(t))
            /\ Return(t)
       ELSE /\ Goto(t, "enqueue")
            /\ UNCHANGED <<asyncCallbacks, rounds>>
    /\ UNCHANGED <<remoteLogPosition, localLogPosition, m_WriteQueue, m_Seen, wire,
                   reg, olock, threadFrame>>

\* SendMessage: m_WriteQueue.Enqueue(...)
Enqueue(t) ==
    /\ pc[t] = "enqueue"
    /\ \E message \in OutMessages :
          m_WriteQueue' = [m_WriteQueue EXCEPT ![ConnOf(t)] = Append(@, message)]
    /\ Return(t)
    /\ UNCHANGED <<remoteLogPosition, localLogPosition, m_Seen, wire,
                   asyncCallbacks, reg, olock, threadFrame>>

\* The worker takes the oldest task of m_WriteQueue: SendMessageSync(message).
Dequeue(t) ==
    /\ t \in threads \cap {"writer"}
    /\ pc[t] = "idle"
    /\ m_WriteQueue[ConnOf(t)] # <<>>
    /\ reg' = [reg EXCEPT ![t] = [message |-> Head(m_WriteQueue[ConnOf(t)])]]
    /\ m_WriteQueue' = [m_WriteQueue EXCEPT ![ConnOf(t)] = Tail(@)]
    /\ Goto(t, "lock")
    /\ UNCHANGED <<remoteLogPosition, localLogPosition, m_Seen, wire,
                   asyncCallbacks, olock, rounds, threadFrame>>

\* ObjectLock olock(m_Stream);
Lock(t) ==
    /\ pc[t] = "lock"
    /\ olock = "none"
    /\ olock' = t
    /\ Goto(t, "locked")
    /\ UNCHANGED <<remoteLogPosition, localLogPosition, m_WriteQueue, m_Seen, wire,
                   asyncCallbacks, reg, rounds, threadFrame>>

\* SendMessageSync enters JsonRpc::SendMessage(m_Stream, message) (the stream
\* is open: IsEof() is false).
WriteBegin(t) ==
    /\ pc[t] = "locked"
    /\ Goto(t, "writing")
    /\ UNCHANGED <<remoteLogPosition, localLogPosition, m_WriteQueue, m_Seen, wire,
                   asyncCallbacks, reg, olock, rounds, threadFrame>>

\* JsonRpc::SendMessage returns, m_Seen is set and the lock is released.
WriteEnd(t) ==
    /\ pc[t] = "writing"
    /\ wire' = [wire EXCEPT ![ConnOf(t)] = Append(@, reg[t].message)]
    /\ m_Seen' = [m_Seen EXCEPT ![ConnOf(t)] =
                      SeenAfter(ConnOf(t), reg[t].message["method"])]
    /\ olock' = "none"
    /\ Return(t)
    /\ UNCHANGED <<remoteLogPosition, localLogPosition, m_WriteQueue,
                   asyncCallbacks, reg, threadFrame>>

\* No thread runs.
IdleThreads ==
    /\ threads = {}
    /\ pc = [t \in Threads |-> "idle"]
    /\ reg = [t \in Threads |-> NoReg]
    /\ olock = "none"
    /\ rounds = [t \in Threads |-> 0]

(* ------------------------ feature enable (CLI) ----------------------- *)

\* The feature names a user may give.
Features == {"foo", "bar"}

\* ap: the names of one call, in order.
Args == UNION {[1..n -> Features] : n \in 0..MaxArgs}

\* The names of ap, as a set.
Named(ap) == {ap[i] : i \in DOMAIN ap}

\* !Utility::PathExists(source)
SourceMissing(feature, avail) == feature \notin avail

\* AlreadyEnabled that never finds the target.
AlreadyEnabledNever(feature, enabledNow) == FALSE

\* Utility::PathExists(target)
AlreadyEnabled(feature, enabledNow) == feature \in enabledNow

\* symlink(source, target) >= 0: it fails when target exists and when the
\* file system refuses it (failing).
SymlinkSucceeds(feature, enabledNow, failing) ==
    feature \notin enabledNow /\ feature \notin failing

\* The exit status after the loop.
ExitStatus(errors) == IF errors # <<>> THEN 1 ELSE 0

\* The loop over ap.  st = [enabled, errors, attempted, linked]: the paths of
\* features-enabled, the features that failed, the features symlink was called
\* for and the features it linked.
RECURSIVE EnableFeatures(_, _, _, _)
EnableFeatures(ap, avail, failing, st) ==
    IF ap = <<>>
    THEN st
    ELSE LET feature == Head(ap)
             after ==
                 IF SourceMissing(feature, avail)
                 THEN [st EXCEPT !.errors = Append(@, feature)]
                 ELSE IF AlreadyEnabled(feature, st.enabled)
                 THEN st
                 ELSE IF ~SymlinkSucceeds(feature, st.enabled, failing)
                 THEN [st EXCEPT !.attempted = Append(@, feature),
                                 !.errors = Append(@, feature)]
                 ELSE [st EXCEPT !.attempted = Append(@, feature),
                                 !.linked = Append(@, feature),
                                 !.enabled = @ \cup {feature}]
         IN EnableFeatures(Tail(ap), avail, failing, after)

NoRun == [count |-> 0, ap |-> <<>>, failing |-> {}, ret |-> 0,
          errors |-> <<>>, attempted |-> <<>>, linked |-> <<>>]

\* FeatureEnableCommand::Run(vm, ap)
Run ==
    /\ run.count < MaxRuns
    /\ \E ap \in Args :
       \E failing \in SUBSET Named(ap) :
          LET early == ap = <<>> \/ ~dirs.available \/ ~dirs.enabled
              st == EnableFeatures(ap, available, failing,
                                   [enabled |-> enabled, errors |-> <<>>,
                                    attempted |-> <<>>, linked |-> <<>>])
          IN IF early
             THEN /\ run' = [NoRun EXCEPT !.count = run.count + 1, !.ap = ap,
                                          !.failing = failing]
                  /\ UNCHANGED <<enabled, links>>
             ELSE /\ run' = [count |-> run.count + 1, ap |-> ap, failing |-> failing,
                             ret |-> ExitStatus(st.errors), errors |-> st.errors,
                             attempted |-> st.attempted, linked |-> st.linked]
                  /\ enabled' = st.enabled
                  /\ links' = [f \in Features |->
                                  links[f] + Cardinality({i \in DOMAIN st.linked :
                                                             st.linked[i] = f})]
    /\ prevRun' = [count |-> run.count, ap |-> run.ap, ret |-> run.ret]
    /\ UNCHANGED <<dirs, available, apiVars, config, threadVars>>

\* The tool has not run.
IdleCli ==
    /\ dirs = [available |-> TRUE, enabled |-> TRUE]
    /\ available = {}
    /\ enabled = {}
    /\ run = NoRun
    /\ prevRun = [count |-> 0, ap |-> <<>>, ret |-> 0]
    /\ links = [f \in Features |-> 0]

(* --------------------------- specification --------------------------- *)

NoCall == [client |-> "none", outcome |-> "none", ret |-> "none",
           message |-> EmptyDict, invoked |-> "none", threw |-> FALSE,
           resultMessage |-> EmptyDict,
           responded |-> FALSE, written |-> FALSE, disconnect |-> FALSE,
           origin |-> NoOrigin]

\* One connection has been constructed and registered; workloads: the
\* workloads the behaviour may follow.
InitOf(workloads) ==
    /\ remoteLogPosition = [e \in Endpoints |-> 0]
    /\ localLogPosition = [e \in Endpoints |-> 0]
    /\ clients \in {{c} : c \in Alone}
    /\ workload \in workloads
    /\ localZone \in LocalZonesOf(workload)
    /\ endpointClients = [e \in Endpoints |-> {c \in clients : m_Endpoint[c] = e}]
    /\ anonymousClients = {c \in clients : m_Endpoint[c] = NoEndpoint}
    /\ ticketSalt \in Salts
    /\ signedCerts = {}
    /\ m_WriteQueue = [c \in Clients |-> <<>>]
    /\ m_Seen = [c \in Clients |-> 0]
    /\ stream = [c \in Clients |-> "open"]
    /\ wire = [c \in Clients |-> <<>>]
    /\ asyncCallbacks = [c \in Clients |-> 0]
    /\ teardowns = [c \in Clients |-> 0]
    /\ now = 0
    /\ last = NoCall
    /\ seenTs = [e \in Endpoints |-> 0]
    /\ seenLogPos = [e \in Endpoints |-> 0]
    /\ overflowed = {}
    /\ nProc = 0
    /\ nSend = 0
    /\ nFault = 0
    /\ IdleCli
    /\ IdleThreads

Init == InitOf(Workloads)

Next ==
    \/ \E c \in clients : ProcessMessage(c)
    \/ \E c \in clients : SendMessage(c)
    \/ \E c \in clients : SendMessageSync(c)
    \/ \E c \in clients : DisconnectSync(c)
    \/ \E c \in clients : StreamFault(c)
    \/ Tick

Spec == Init /\ [][Next]_vars

\* No connection exists.
IdleApi ==
    /\ remoteLogPosition = [e \in Endpoints |-> 0]
    /\ localLogPosition = [e \in Endpoints |-> 0]
    /\ clients = {}
    /\ workload = "none"
    /\ localZone = "master"
    /\ endpointClients = [e \in Endpoints |-> {}]
    /\ anonymousClients = {}
    /\ ticketSalt = ""
    /\ signedCerts = {}
    /\ m_WriteQueue = [c \in Clients |-> <<>>]
    /\ m_Seen = [c \in Clients |-> 0]
    /\ stream = [c \in Clients |-> "open"]
    /\ wire = [c \in Clients |-> <<>>]
    /\ asyncCallbacks = [c \in Clients |-> 0]
    /\ teardowns = [c \in Clients |-> 0]
    /\ now = 0
    /\ last = NoCall
    /\ seenTs = [e \in Endpoints |-> 0]
    /\ seenLogPos = [e \in Endpoints |-> 0]
    /\ overflowed = {}
    /\ nProc = 0
    /\ nSend = 0
    /\ nFault = 0

\* The directories before the tool runs: a missing directory holds nothing, and
\* a path of features-enabled is a link to a file of features-available.
InitCli ==
    /\ IdleApi
    /\ IdleThreads
    /\ dirs \in [available : BOOLEAN, enabled : BOOLEAN]
    /\ available \in IF dirs.available THEN SUBSET Features ELSE {{}}
    /\ enabled \in IF dirs.enabled THEN SUBSET available ELSE {{}}
    /\ run = NoRun
    /\ prevRun = [count |-> 0, ap |-> <<>>, ret |-> 0]
    /\ links = [f \in Features |-> 0]

NextCli == Run

SpecCli == InitCli /\ [][NextCli]_vars

\* The thread pool runs every callback Utility::QueueAsyncCallback was handed.
AsyncCallbacksRun == \A c \in Clients : WF_vars(DisconnectSync(c))

\* Workload "teardown": one call of ProcessMessage and as many calls of
\* SendMessage as it takes to pass the high-water mark, under the thread pool's
\* fairness.
InitTeardown == InitOf({"teardown"})
SpecTeardown == InitTeardown /\ [][Next]_vars /\ AsyncCallbacksRun

\* No connection has been constructed yet; workload "connect": connections are
\* constructed, registered by the listener, fed and torn down.
InitConnect ==
    /\ remoteLogPosition = [e \in Endpoints |-> 0]
    /\ localLogPosition = [e \in Endpoints |-> 0]
    /\ clients = {}
    /\ workload = "connect"
    /\ localZone = "master"
    /\ endpointClients = [e \in Endpoints |-> {}]
    /\ anonymousClients = {}
    /\ ticketSalt = "s1"
    /\ signedCerts = {}
    /\ m_WriteQueue = [c \in Clients |-> <<>>]
    /\ m_Seen = [c \in Clients |-> 0]
    /\ stream = [c \in Clients |-> "open"]
    /\ wire = [c \in Clients |-> <<>>]
    /\ asyncCallbacks = [c \in Clients |-> 0]
    /\ teardowns = [c \in Clients |-> 0]
    /\ now = 0
    /\ last = NoCall
    /\ seenTs = [e \in Endpoints |-> 0]
    /\ seenLogPos = [e \in Endpoints |-> 0]
    /\ overflowed = {}
    /\ nProc = 0
    /\ nSend = 0
    /\ nFault = 0
    /\ IdleCli
    /\ IdleThreads

NextConnect ==
    \/ \E c \in Clients : Construct(c)
    \/ \E c \in clients : AddClient(c)
    \/ \E c \in clients : ProcessMessage(c)
    \/ \E c \in clients : DisconnectSync(c)
    \/ \E c \in clients : StreamFault(c)

SpecConnect == InitConnect /\ [][NextConnect]_vars

\* Workload "origin": one message that may name an 'originZone', under either
\* local zone.
InitOrigin == InitOf({"origin"})

NextOrigin ==
    \/ \E c \in clients : ProcessMessage(c)
    \/ \E c \in clients : DisconnectSync(c)
    \/ \E c \in clients : StreamFault(c)

SpecOrigin == InitOrigin /\ [][NextOrigin]_vars

\* c1 and c4 have been constructed and registered with Endpoint e1, and one of
\* the thread sets runs.
InitThreads ==
    /\ remoteLogPosition = [e \in Endpoints |-> 0]
    /\ localLogPosition = [e \in Endpoints |-> 0]
    /\ clients = {"c1", "c4"}
    /\ workload = "threads"
    /\ localZone = "master"
    /\ endpointClients = [e \in Endpoints |-> {c \in clients : m_Endpoint[c] = e}]
    /\ anonymousClients = {}
    /\ ticketSalt = "s1"
    /\ signedCerts = {}
    /\ m_WriteQueue = [c \in Clients |-> <<>>]
    /\ m_Seen = [c \in Clients |-> 0]
    /\ stream = [c \in Clients |-> "open"]
    /\ wire = [c \in Clients |-> <<>>]
    /\ asyncCallbacks = [c \in Clients |-> 0]
    /\ teardowns = [c \in Clients |-> 0]
    /\ now = 0
    /\ last = NoCall
    /\ seenTs = [e \in Endpoints |-> 0]
    /\ seenLogPos = [e \in Endpoints |-> 0]
    /\ overflowed = {}
    /\ nProc = 0
    /\ nSend = 0
    /\ nFault = 0
    /\ IdleCli
    /\ threads \in Scenarios
    /\ pc = [t \in Threads |-> "idle"]
    /\ reg = [t \in Threads |-> NoReg]
    /\ olock = "none"
    /\ rounds = [t \in Threads |-> 0]

NextThreads ==
    \/ \E t \in Threads : ReadBegin(t)
    \/ \E t \in Threads : ReadEnd(t)
    \/ \E t \in Threads : FreshnessCheck(t)
    \/ \E t \in Threads : SetRemoteLogPosition(t)
    \/ \E t \in Threads : InvokeHandler(t)
    \/ \E t \in Threads : SetLocalLogPosition(t)
    \/ \E t \in Threads : RespondBegin(t)
    \/ \E t \in Threads : RespondEnd(t)
    \/ \E t \in Threads : GetLength(t)
    \/ \E t \in Threads : Enqueue(t)
    \/ \E t \in Threads : Dequeue(t)
    \/ \E t \in Threads : Lock(t)
    \/ \E t \in Threads : WriteBegin(t)
    \/ \E t \in Threads : WriteEnd(t)

SpecThreads == InitThreads /\ [][NextThreads]_vars

TypeOK ==
    /\ \A c \in Clients : stream[c] \in StreamStates
    /\ \A e \in Endpoints : remoteLogPosition[e] \in 0..MaxTs

(* ------------------------------ claims ------------------------------- *)

\* A step of ProcessMessage.
ProcStep == nProc' # nProc

\* The latest ProcessMessage call decoded a message.
Decoded(l) == l.outcome \in {"stale", "dispatched"}

\* What ProcessMessage leaves alone when it drops a message, m_Seen apart.
DropFrame == <<remoteLogPosition, localLogPosition, endpointClients,
               anonymousClients, signedCerts, m_WriteQueue, stream, wire,
               asyncCallbacks, teardowns>>

\* C1 as claimed: a message of a connection with an Endpoint whose ts is at most
\* the Endpoint's remoteLogPosition (ties included) is not dispatched and changes
\* no state; ProcessMessage returns true and does not call Disconnect.
C1_Original ==
    [][(/\ ProcStep
        /\ Decoded(last')
        /\ m_Endpoint[last'.client] # NoEndpoint
        /\ Contains(last'.message, "ts")
        /\ last'.message["ts"] <= remoteLogPosition[m_Endpoint[last'.client]])
       => (/\ last'.outcome = "stale"
           /\ last'.invoked = "none"
           /\ last'.ret = "true"
           /\ ~last'.disconnect
           /\ UNCHANGED DropFrame
           /\ UNCHANGED m_Seen)]_vars

\* C1 as amended: a message of a connection with an Endpoint whose ts is below
\* the Endpoint's remoteLogPosition is not dispatched: no handler is invoked, no
\* response is written, ProcessMessage returns true, Disconnect is not called and
\* no state changes but m_Seen, which is set to the current time unless the
\* method is log::SetLogPosition.  A message whose ts equals remoteLogPosition is
\* dispatched.
C1_StaleDropped ==
    [][(/\ ProcStep
        /\ Decoded(last')
        /\ m_Endpoint[last'.client] # NoEndpoint
        /\ Contains(last'.message, "ts"))
       => LET l == last'
              c == l.client
              ts == l.message["ts"]
              position == remoteLogPosition[m_Endpoint[c]]
          IN /\ ts < position =>
                   /\ l.outcome = "stale"
                   /\ l.invoked = "none"
                   /\ ~l.responded
                   /\ l.ret = "true"
                   /\ ~l.disconnect
                   /\ UNCHANGED DropFrame
                   /\ m_Seen' = [m_Seen EXCEPT ![c] =
                                    IF l.message["method"] # "log::SetLogPosition"
                                    THEN now ELSE @]
             /\ ts = position => l.outcome = "dispatched"]_vars

\* C1's case: a stale message that carries an id was dropped.
C1_Witness ==
    /\ last.outcome = "stale"
    /\ Contains(last.message, "id")
    /\ last.message["method"] # "log::SetLogPosition"
    /\ m_Seen[last.client] > 0

\* C2: after every step remoteLogPosition is the largest ts received for the
\* Endpoint (its initial value included) and localLogPosition the largest
\* log_position handed to SetLogPositionHandler for it; a stale ts is dropped
\* with ProcessMessage returning true and SetLogPositionHandler never yields an
\* error.
C2_MaxSeen ==
    /\ \A e \in Endpoints :
          /\ remoteLogPosition[e] = seenTs[e]
          /\ localLogPosition[e] = seenLogPos[e]
    /\ last.outcome = "stale" => last.ret = "true"
    /\ last.invoked = "log::SetLogPosition" =>
          /\ ~last.threw
          /\ ~Contains(last.resultMessage, "error")

\* C2's case: SetLogPositionHandler was handed a log_position below the stored
\* localLogPosition, in a message that carries a ts.
C2_Witness ==
    /\ last.invoked = "log::SetLogPosition"
    /\ GetParams(last.message) # Null
    /\ Contains(last.message, "ts")
    /\ m_Endpoint[last.client] # NoEndpoint
    /\ GetDouble(GetParams(last.message), "log_position")
          < localLogPosition[m_Endpoint[last.client]]
    /\ last.message["ts"] > 0

\* C3 as claimed: a SendMessage that finds more than the high-water mark pending
\* initiates Disconnect and does not enqueue, and from then on no message is
\* enqueued on the connection and no queued message is written to its transport.
C3_Original ==
    [][\A c \in clients :
          /\ (nSend' # nSend /\ Len(m_WriteQueue[c]) > HighWater) =>
                /\ asyncCallbacks'[c] = asyncCallbacks[c] + 1
                /\ m_WriteQueue'[c] = m_WriteQueue[c]
          /\ c \in overflowed =>
                /\ Len(m_WriteQueue'[c]) <= Len(m_WriteQueue[c])
                /\ Len(m_WriteQueue'[c]) < Len(m_WriteQueue[c]) => wire'[c] = wire[c]]_vars

\* The response of the latest call is well formed: the request's id, the version
\* marker, and exactly one of result and error.
WellFormedResponse(l) ==
    /\ Contains(l.resultMessage, "id")
    /\ l.resultMessage["id"] = l.message["id"]
    /\ Contains(l.resultMessage, "jsonrpc")
    /\ l.resultMessage["jsonrpc"] = "2.0"
    /\ Contains(l.resultMessage, "result") # Contains(l.resultMessage, "error")

\* C4 as claimed: every decoded message that carries an id gets a well-formed
\* response, a stale one included.
C4_Original ==
    (Decoded(last) /\ Contains(last.message, "id"))
        => (last.responded /\ WellFormedResponse(last))

\* C4 as amended: ProcessMessage hands exactly one response to
\* JsonRpc::SendMessage for every message that carries an id and is dispatched
\* (not dropped by the freshness check), and the response is well formed, also
\* for an unknown method and a failing handler; a message dropped as stale or
\* without an id gets no response.
C4_Responds ==
    [][ProcStep =>
         LET l == last'
             c == l.client
         IN /\ l.responded = (l.outcome = "dispatched" /\ Contains(l.message, "id"))
            /\ l.responded => WellFormedResponse(l)
            /\ l.written => l.responded
            /\ wire'[c] = IF l.written THEN Append(wire[c], l.resultMessage)
                                       ELSE wire[c]]_vars

\* C4's case: a request with an id failed in dispatch and its response was written.
C4_Witness ==
    /\ last.outcome = "dispatched"
    /\ Contains(last.message, "id")
    /\ Contains(last.resultMessage, "error")
    /\ last.written
    /\ wire[last.client] # <<>>

\* C5 as claimed: dispatching an unregistered method sets an error that holds the
\* method name and no result, raises nothing to the caller of ProcessMessage and
\* does not disconnect.
C5_Original ==
    (last.outcome = "dispatched" /\ last.message["method"] \notin Registered)
        => /\ Contains(last.resultMessage, "error")
           /\ \E i \in DOMAIN last.resultMessage["error"] :
                 last.resultMessage["error"][i] = last.message["method"]
           /\ ~Contains(last.resultMessage, "result")
           /\ last.ret # "throw"
           /\ ~last.disconnect

\* C6 as claimed: an error a registered handler raises ends in the error field;
\* ProcessMessage returns true and the connection stays open.
C6_Original ==
    (last.outcome = "dispatched" /\ last.threw)
        => /\ Contains(last.resultMessage, "error")
           /\ ~Contains(last.resultMessage, "result")
           /\ last.ret = "true"
           /\ ~last.disconnect

\* The value RequestCertificateHandler returned in the latest call.
LastValue == last.resultMessage["result"]

\* C7 as claimed: with an empty ticket salt every call of
\* RequestCertificateHandler returns the error "Ticket salt is not configured.",
\* missing params included, and nothing is signed.
C7_Original ==
    (ticketSalt = "" /\ last.invoked = "pki::RequestCertificate")
        => /\ ~last.threw
           /\ LastValue = [error |-> SaltMissingText]
           /\ signedCerts = {}

\* C7 as amended: with an empty ticket salt every call of
\* RequestCertificateHandler with params present returns a result whose only
\* field is error, "Ticket salt is not configured.", whatever the ticket, a
\* missing ticket included; with params missing it returns Empty; in both cases
\* no certificate is signed.
C7_NoSalt ==
    /\ ticketSalt = "" => signedCerts = {}
    /\ (ticketSalt = "" /\ last.invoked = "pki::RequestCertificate")
          => /\ ~last.threw
             /\ LastValue = IF GetParams(last.message) = Null
                            THEN Empty
                            ELSE [error |-> SaltMissingText]

\* C7's case: no salt, and the ticket is the one PBKDF2_SHA1 yields for the
\* connection's identity and the empty salt.
C7_Witness ==
    /\ ticketSalt = ""
    /\ last.invoked = "pki::RequestCertificate"
    /\ GetParams(last.message) # Null
    /\ GetTicket(GetParams(last.message), "ticket")
          = PBKDF2_SHA1(m_Identity[last.client], "", Iterations)
    /\ LastValue = [error |-> SaltMissingText]

\* C8: with a ticket salt, RequestCertificateHandler returns cert and ca and no
\* error exactly when the ticket of params is PBKDF2_SHA1(the connection's
\* identity, salt, 50000); for every other ticket (a missing one included) it
\* returns only the error "Invalid ticket." and CreateCertIcingaCA is not
\* reached.  What is signed is the key and subject of the connection's peer
\* certificate, whatever params holds.
C8_Ticket ==
    [][(ProcStep /\ ticketSalt # "" /\ last'.invoked = "pki::RequestCertificate")
       => LET l == last'
              c == l.client
              params == GetParams(l.message)
              value == l.resultMessage["result"]
              peer == PeerCertificate[c]
              right == /\ params # Null
                       /\ GetTicket(params, "ticket")
                             = PBKDF2_SHA1(m_Identity[c], ticketSalt, Iterations)
          IN /\ ~l.threw
             /\ right => value = [cert |-> CreateCertIcingaCA(peer.pubkey, peer.subject),
                                  ca |-> CaCert]
             /\ (params # Null /\ ~right) => value = [error |-> InvalidTicketText]
             /\ Contains(value, "cert") => right
             /\ signedCerts' = IF right THEN signedCerts \cup {peer} ELSE signedCerts]_vars

\* C8's case: a certificate was issued for a request whose params name another
\* key and subject.
C8_Witness ==
    /\ last.invoked = "pki::RequestCertificate"
    /\ Contains(GetParams(last.message), "pubkey")
    /\ Contains(LastValue, "cert")
    /\ signedCerts # {}

\* C9 as claimed: however often Disconnect is called on a connection,
\* DisconnectSync runs at most once.
C9_Original == \A c \in Clients : teardowns[c] <= 1

\* C10 as claimed: after end-of-stream, a TLS error or a decode error in
\* ProcessMessage, Disconnect has been called and nothing is raised to the caller.
C10_Original ==
    (\/ last.outcome \in {"eof", "ssl_error", "decode_error"}
     \/ (last.responded /\ ~last.written))
        => (last.disconnect /\ last.ret # "throw")

\* C11 as claimed: on one connection outbound messages reach the transport in the
\* order they were produced: the queue's worker writes the oldest pending message
\* and removes it, SendMessage appends behind every pending message, and a
\* response of ProcessMessage is written only when no message enqueued before it
\* is still pending.
C11_Original ==
    [][\A c \in clients :
          LET queue == m_WriteQueue[c]
          IN /\ Len(m_WriteQueue'[c]) > Len(queue) =>
                   \E message \in OutMessages : m_WriteQueue'[c] = Append(queue, message)
             /\ Len(m_WriteQueue'[c]) < Len(queue) =>
                   /\ m_WriteQueue'[c] = Tail(queue)
                   /\ wire'[c] \in {wire[c], Append(wire[c], Head(queue))}
             /\ (wire'[c] # wire[c] /\ m_WriteQueue'[c] = queue) =>
                   (ProcStep /\ queue = <<>>)]_vars

\* A step of FeatureEnableCommand::Run.
RunStep == run'.count # run.count

\* C12: with both directories present, Run handles every name it is given and
\* returns 1 exactly when a named feature failed (no file in features-available,
\* or the link could not be created) and 0 otherwise; a feature already in
\* features-enabled is no failure and no link is attempted for it, so enabling an
\* available feature twice returns 0 both times and links it once, and a name
\* with no file in features-available returns 1.
C12_ExitStatus ==
    [][(RunStep /\ dirs.available /\ dirs.enabled)
       => LET r == run'
              Failed(f) == f \notin available \/ (f \notin enabled /\ f \in r.failing)
              Linked(f) == f \in available /\ f \notin enabled /\ f \notin r.failing
          IN /\ r.ret = IF \E f \in Named(r.ap) : Failed(f) THEN 1 ELSE 0
             /\ Named(r.errors) = {f \in Named(r.ap) : Failed(f)}
             /\ \A f \in Named(r.ap) : Failed(f) \/ f \in enabled'
             /\ \A f \in enabled : f \notin Named(r.attempted)
             /\ enabled' = enabled \cup {f \in Named(r.ap) : Linked(f)}
             /\ \A f \in Features :
                   /\ links'[f] = links[f] + IF f \in Named(r.ap) /\ Linked(f) THEN 1 ELSE 0
                   /\ links'[f] <= 1
                   /\ (run.count > 0 /\ run.ap = <<f>> /\ run.ret = 0 /\ r.ap = <<f>>)
                         => (r.ret = 0 /\ r.attempted = <<>> /\ links'[f] = links[f])]_vars

\* C12's case: an available feature was enabled twice; both calls returned 0 and
\* one link exists.
C12_Witness ==
    /\ run.count = 2
    /\ prevRun.ap = <<"foo">> /\ prevRun.ret = 0
    /\ run.ap = <<"foo">> /\ run.ret = 0
    /\ links["foo"] = 1
    /\ "foo" \in enabled

\* C13 as claimed: once Disconnect has been called on a connection no later
\* SendMessage enqueues anything on it, and once its teardown has run no
\* operation writes to its transport, changes the state of its stream or tears
\* it down again.
C13_Original ==
    [][\A c \in clients :
          /\ Closing(c) => Len(m_WriteQueue'[c]) <= Len(m_WriteQueue[c])
          /\ Closed(c) => /\ wire'[c] = wire[c]
                          /\ stream'[c] = stream[c]
                          /\ teardowns'[c] = teardowns[c]]_vars

\* The connection is registered nowhere.
Deregistered(c) ==
    /\ c \notin anonymousClients
    /\ \A e \in Endpoints : c \notin endpointClients[e]

\* Teardown runs (DisconnectSync) on the connection in this step.
TeardownStep(c) == teardowns'[c] # teardowns[c]

\* After Disconnect, teardown runs in the end and leaves the connection
\* registered nowhere, its stream closed.
TeardownRuns ==
    \A c \in Clients :
        Closing(c) ~> (Closed(c) /\ asyncCallbacks[c] = 0 /\ Deregistered(c)
                       /\ stream[c] = "closed")

\* C14 as claimed: after Disconnect teardown runs in the end, removes the
\* connection from one place and closes its stream; a connection constructed
\* with authenticated=true is removed from an Endpoint and never from the
\* listener's anonymous set, any other connection from the anonymous set.
C14_Original ==
    /\ TeardownRuns
    /\ [][\A c \in clients : TeardownStep(c) =>
             /\ stream'[c] = "closed"
             /\ IF m_Authenticated[c]
                THEN anonymousClients' = anonymousClients
                ELSE /\ anonymousClients' = anonymousClients \ {c}
                     /\ endpointClients' = endpointClients]_vars

\* C14 as amended: after Disconnect teardown runs in the end and closes the
\* stream, and each run of it removes the connection from one place: from its
\* Endpoint when it was constructed with authenticated=true and an identity that
\* names an Endpoint, and from the listener's anonymous set otherwise, which
\* includes a connection constructed with authenticated=true whose identity
\* names no Endpoint.
C14_Teardown ==
    /\ TeardownRuns
    /\ [][\A c \in clients : TeardownStep(c) =>
             /\ stream'[c] = "closed"
             /\ IF m_Authenticated[c] /\ m_Identity[c] \in Endpoints
                THEN /\ endpointClients' =
                           [endpointClients EXCEPT ![m_Identity[c]] = @ \ {c}]
                     /\ anonymousClients' = anonymousClients
                ELSE /\ anonymousClients' = anonymousClients \ {c}
                     /\ endpointClients' = endpointClients]_vars

\* C14's case: the teardown of the authenticated connection whose identity names
\* no Endpoint has run and took it out of the anonymous set.
C14_Witness ==
    /\ clients = {"c3"}
    /\ Closed("c3")
    /\ "c3" \notin anonymousClients
    /\ stream["c3"] = "closed"

\* C15 as claimed: when a connection has been constructed with
\* authenticated=true and an identity that names an Endpoint, that Endpoint
\* refers to the new connection and to no other, and every Endpoint has at most
\* one connection registered in every reachable state.
C15_Original ==
    /\ [][\A c \in Clients :
             (/\ c \notin clients /\ c \in clients'
              /\ m_Authenticated[c] /\ m_Identity[c] \in Endpoints)
             => endpointClients'[m_Identity[c]] = {c}]_vars
    /\ [](\A e \in Endpoints : Cardinality(endpointClients[e]) <= 1)

\* C16: every dispatched message is handed an origin whose FromClient is the
\* connection; FromZone is the Endpoint's zone when that is not the local zone,
\* whatever 'originZone' the message carries; it is the zone 'originZone' names
\* when the Endpoint is in the local zone, and unresolved when the field is
\* absent or names no zone; it is unresolved when the connection has no Endpoint.
C16_Origin ==
    last.outcome = "dispatched" =>
        LET c == last.client
            e == m_Endpoint[c]
            named == IF Contains(last.message, "originZone")
                     THEN last.message["originZone"] ELSE ""
        IN /\ last.origin.FromClient = c
           /\ e = NoEndpoint => last.origin.FromZone = NoZone
           /\ (e # NoEndpoint /\ EndpointZone[e] # localZone)
                 => last.origin.FromZone = EndpointZone[e]
           /\ (e # NoEndpoint /\ EndpointZone[e] = localZone)
                 => last.origin.FromZone = IF named \in Zones THEN named ELSE NoZone

\* C16's case: the Endpoint is in another zone than the local one and the message
\* names the local zone as its 'originZone'.
C16_Witness ==
    /\ last.outcome = "dispatched"
    /\ m_Endpoint[last.client] # NoEndpoint
    /\ EndpointZone[m_Endpoint[last.client]] # localZone
    /\ Contains(last.message, "originZone")
    /\ last.message["originZone"] = localZone
    /\ last.origin.FromZone = "master"

\* The thread is inside JsonRpc::ReadMessage or JsonRpc::SendMessage.
InCodec(t) == pc[t] \in {"reading", "responding", "writing"}

\* C17 as claimed: the reader of a connection (ProcessMessage, its response
\* included) and its writer (SendMessageSync) are never inside a codec operation
\* on the connection's stream at the same time.
C17_Original ==
    \A r \in Readers, w \in {"writer"} :
        ConnOf(r) = ConnOf(w) => ~(InCodec(r) /\ InCodec(w))

\* C18 as claimed: however the readers and handlers that update one Endpoint
\* interleave, its remoteLogPosition and its localLogPosition never decrease.
C18_Original ==
    [][\A e \in Endpoints :
          /\ remoteLogPosition'[e] >= remoteLogPosition[e]
          /\ localLogPosition'[e] >= localLogPosition[e]]_vars

\* C19 as claimed: however many threads call SendMessage beside the queue's
\* worker, a connection's write queue never holds more than the high-water mark
\* plus one.
C19_Original ==
    \A c \in Clients : Len(m_WriteQueue[c]) <= HighWater + 1

\* C19 as amended: with N threads calling SendMessage on a connection beside the
\* queue's worker, its write queue never holds more than the high-water mark
\* plus N entries (the mark plus one with a single caller): SendMessage enqueues
\* only when the length it observed is at most the mark, and the callers that
\* observed it before it was passed may each still enqueue.
C19_Bound ==
    \A c \in Clients :
        Len(m_WriteQueue[c])
            <= HighWater + Cardinality({t \in threads \cap Senders : ConnOf(t) = c})

\* C19's case: two callers both observed the queue at the mark and both enqueued.
C19_Witness ==
    /\ threads \cap Senders = Senders
    /\ Len(m_WriteQueue["c1"]) = HighWater + 2

\* C20: a message decoded on a connection that has no Endpoint changes no
\* Endpoint's remoteLogPosition or localLogPosition, whatever 'ts' it carries
\* and whatever its method; it is not dropped by the freshness check but
\* dispatched, and log::SetLogPosition returns an empty result for it and no
\* error.
C20_Anonymous ==
    [][(ProcStep /\ Decoded(last') /\ m_Endpoint[last'.client] = NoEndpoint)
       => LET l == last'
          IN /\ remoteLogPosition' = remoteLogPosition
             /\ localLogPosition' = localLogPosition
             /\ l.outcome = "dispatched"
             /\ l.message["method"] = "log::SetLogPosition" =>
                   /\ l.invoked = "log::SetLogPosition"
                   /\ ~l.threw
                   /\ ~Contains(l.resultMessage, "error")
                   /\ l.resultMessage["result"] = Empty]_vars

\* C20's case: an anonymous connection sent log::SetLogPosition with a 'ts' and a
\* log_position above the positions stored.
C20_Witness ==
    /\ last.client = "c2"
    /\ last.outcome = "dispatched"
    /\ last.invoked = "log::SetLogPosition"
    /\ Contains(last.message, "ts")
    /\ GetParams(last.message) # Null
    /\ GetDouble(GetParams(last.message), "log_position") > localLogPosition["e1"]
    /\ last.message["ts"] > remoteLogPosition["e1"]

====
